---- MODULE Spec2Model ----
(***************************************************************************)
(* Command dispatch and per-user conversation memory of the LINE bot in    *)
(* src/main.py: handle_text_message and handle_audio_message, the Memory   *)
(* object they mutate and the capability calls they wait for.              *)
(*                                                                         *)
(* Text is a sequence of Unicode code points, so that strip(), slicing and *)
(* startswith() are computed character by character as Python does.        *)
(* A handler is split at its blocking calls and at its calls on the shared *)
(* Memory: an action holds at most one memory call, and there is one       *)
(* action per result of a blocking call.  The handlers run on the threads  *)
(* of their requests and take no lock, so their actions interleave.        *)
(***************************************************************************)
EXTENDS Integers, Sequences, FiniteSets, TLC

VARIABLES
    memory,     \* the Memory object: per user, system message and history
    appended,   \* per user, every entry appended since the history was last emptied
    latest_system, \* per user, the text of the latest /系統訊息 command
    h,          \* per worker thread, the handler invocation it is running
    events,     \* number of events delivered so far
    storage,    \* the Storage object of lines 176-180: per user, the record it holds
    raced       \* per user, whether two handlers of that user ever overlapped

vars == <<memory, appended, latest_system, h, events, storage, raced>>

-----------------------------------------------------------------------------
(* Bounds of the model *)

\* events delivered in one run
MaxEvents == 4

\* the events of a run that are of any kind and text: the first
\* MaxVariedEvents of them; the later ones are the command '/GPT hi'
MaxVariedEvents == 3

\* the events of a run that may arrive while a handler is running: the
\* first MaxOverlapEvents of them
MaxOverlapEvents == 2

Users == {"u1", "u2"}
Threads == {1, 2}

-----------------------------------------------------------------------------
(* Literals of src/main.py, as code points *)

\* '/指令說明'
cmd_help == <<47, 25351, 20196, 35498, 26126>>
\* '/系統訊息'
cmd_system == <<47, 31995, 32113, 35338, 24687>>
\* '/清除'
cmd_clear == <<47, 28165, 38500>>
\* '/圖像'
cmd_image == <<47, 22294, 20687>>
\* '/GPT'
cmd_chat == <<47, 71, 80, 84>>

\* commands = ['/指令說明', '/系統訊息', '/清除', '/圖像', '/GPT']
commands == <<cmd_help, cmd_system, cmd_clear, cmd_image, cmd_chat>>

\* the help text of line 67
TEXT_HELP ==
    <<25351, 20196, 65306, 10, 47, 31995, 32113, 35338, 24687, 32, 43, 32, 80, 114, 111, 109, 112, 116, 10, 128073, 32, 80, 114, 111, 109, 112, 116, 32, 21487, 20197, 21629, 20196, 27231, 22120, 20154, 25198, 28436, 26576, 20491, 35282, 33394, 65292, 20363, 22914, 65306, 35531, 20320, 25198, 28436, 25797, 38263, 20570, 32317, 32080, 30340, 20154, 10, 10, 47, 28165, 38500, 10, 128073, 32, 30070, 21069, 27599, 19968, 27425, 37117, 26371, 32000, 37636, 26368, 24460, 20841, 31558, 27511, 21490, 32000, 37636, 65292, 36889, 20491, 25351, 20196, 33021, 22816, 28165, 38500, 27511, 21490, 35338, 24687, 10, 10, 47, 22294, 20687, 32, 43, 32, 80, 114, 111, 109, 112, 116, 10, 128073, 32, 26371, 35519, 29992, 32, 68, 65, 76, 76, 8729, 69, 32, 50, 32, 77, 111, 100, 101, 108, 65292, 20197, 25991, 23383, 29983, 25104, 22294, 20687, 10, 10, 47, 71, 80, 84, 32, 43, 32, 80, 114, 111, 109, 112, 116, 10, 128073, 32, 35519, 29992, 32, 67, 104, 97, 116, 71, 80, 84, 32, 20197, 25991, 23383, 22238, 35206, 10, 10, 35486, 38899, 36664, 20837, 10, 128073, 32, 26371, 35519, 29992, 32, 87, 104, 105, 115, 112, 101, 114, 32, 27169, 22411, 65292, 20808, 23559, 35486, 38899, 36681, 25563, 25104, 25991, 23383, 65292, 20877, 35519, 29992, 32, 67, 104, 97, 116, 71, 80, 84, 32, 20197, 25991, 23383, 22238, 35206>>
\* '輸入成功'
TEXT_SYSTEM_OK == <<36664, 20837, 25104, 21151>>
\* '歷史訊息清除成功'
TEXT_CLEARED == <<27511, 21490, 35338, 24687, 28165, 38500, 25104, 21151>>
\* '請在 /GPT 指令後提供內容。'
TEXT_PROMPT_REQUIRED ==
    <<35531, 22312, 32, 47, 71, 80, 84, 32, 25351, 20196, 24460, 25552, 20379, 20839, 23481, 12290>>
\* '無法撈取此網站文字'
TEXT_NO_CONTENT == <<28961, 27861, 25736, 21462, 27492, 32178, 31449, 25991, 23383>>
\* 'Incorrect API key provided'
PREFIX_AUTH ==
    <<73, 110, 99, 111, 114, 114, 101, 99, 116, 32, 65, 80, 73, 32, 107, 101, 121, 32, 112, 114, 111, 118, 105, 100, 101, 100>>
\* 'That model is currently overloaded with other requests.'
PREFIX_OVERLOADED ==
    <<84, 104, 97, 116, 32, 109, 111, 100, 101, 108, 32, 105, 115, 32, 99, 117, 114, 114, 101, 110, 116, 108, 121, 32, 111, 118, 101, 114, 108, 111, 97, 100, 101, 100, 32, 119, 105, 116, 104, 32, 111, 116, 104, 101, 114, 32, 114, 101, 113, 117, 101, 115, 116, 115, 46>>
\* 'OpenAI API Key 有誤，請檢查配置。'
TEXT_AUTH ==
    <<79, 112, 101, 110, 65, 73, 32, 65, 80, 73, 32, 75, 101, 121, 32, 26377, 35492, 65292, 35531, 27298, 26597, 37197, 32622, 12290>>
\* '已超過負荷，請稍後再試'
TEXT_OVERLOADED == <<24050, 36229, 36942, 36000, 33655, 65292, 35531, 31245, 24460, 20877, 35430>>

\* os.getenv('SYSTEM_MESSAGE'), here 'D'
SYSTEM_MESSAGE == <<68>>

-----------------------------------------------------------------------------
(* Python str operations *)

\* the characters str.strip() removes
WhiteSpace ==
    (9..13) \cup (28..32) \cup {133, 160, 5760} \cup (8192..8202)
        \cup {8232, 8233, 8239, 8287, 12288}

RECURSIVE lstrip(_)
lstrip(s) ==
    IF s # <<>> /\ Head(s) \in WhiteSpace THEN lstrip(Tail(s)) ELSE s

RECURSIVE rstrip(_)
rstrip(s) ==
    IF s # <<>> /\ s[Len(s)] \in WhiteSpace
    THEN rstrip(SubSeq(s, 1, Len(s) - 1))
    ELSE s

\* s.strip()
strip(s) == rstrip(lstrip(s))

\* s.startswith(p)
startswith(s, p) == Len(s) >= Len(p) /\ SubSeq(s, 1, Len(p)) = p

\* s[n:]
slice(s, n) == SubSeq(s, n + 1, Len(s))

-----------------------------------------------------------------------------
(* Conversation Memory (src/memory.py is not part of the sources; modelled  *)
(* from sections 3 and 4.2 of the specification)                           *)

\* a Memory constructed with one turn more
memory_message_count_one_more == 2 + 1

\* Memory(system_message=os.getenv('SYSTEM_MESSAGE'), memory_message_count=2)
memory_message_count == 2

Entry(role, content) == [role |-> role, content |-> content]

\* a user never seen: the record get/append/... create on first use
FreshRecord == [created |-> FALSE, system_message |-> SYSTEM_MESSAGE, history |-> <<>>]

\* the sliding window: the oldest user/assistant pair goes once the turn
\* count is exceeded
drop_message(hist) ==
    IF Len(hist) > 2 * memory_message_count THEN SubSeq(hist, 3, Len(hist)) ELSE hist

\* memory.append(user_id, role, content)
Memory_append(m, u, role, content) ==
    [m EXCEPT ![u].created = TRUE,
              ![u].history = drop_message(Append(@, Entry(role, content)))]

\* memory.change_system_message(user_id, text)
Memory_change_system_message(m, u, text) ==
    [m EXCEPT ![u].created = TRUE, ![u].system_message = text]

\* memory.remove(user_id)
Memory_remove(m, u) ==
    [m EXCEPT ![u].created = TRUE, ![u].history = <<>>]

\* what memory.get(user_id) returns: the system message, then the history
Memory_get(m, u) ==
    <<Entry("system", m[u].system_message)>> \o m[u].history

-----------------------------------------------------------------------------
(* Content services (src/service is not part of the sources; modelled from *)
(* section 4.1 of the specification: URL detection on the prompt)          *)

URL_HTTP == <<104, 116, 116, 112, 58, 47, 47>>
URL_HTTPS == <<104, 116, 116, 112, 115, 58, 47, 47>>
\* 'youtu.be/'
VIDEO_HOST == <<121, 111, 117, 116, 117, 46, 98, 101, 47>>

\* the leading run of non-blank characters
RECURSIVE word(_)
word(s) ==
    IF s = <<>> \/ Head(s) \in WhiteSpace THEN <<>> ELSE <<Head(s)>> \o word(Tail(s))

UrlStarts(s) ==
    {i \in 1..Len(s) : \/ startswith(slice(s, i - 1), URL_HTTP)
                       \/ startswith(slice(s, i - 1), URL_HTTPS)}

Least(S) == CHOOSE i \in S : \A j \in S : i <= j

\* website.get_url_from_text(prompt): the first URL of the text, <<>> for None
get_url_from_text(s) ==
    IF UrlStarts(s) = {} THEN <<>> ELSE word(slice(s, Least(UrlStarts(s)) - 1))

VideoStarts(s) ==
    {i \in 1..Len(s) : startswith(slice(s, i - 1), VIDEO_HOST)}

\* youtube.retrieve_video_id(prompt): the id after the video host, <<>> for None
retrieve_video_id(s) ==
    IF VideoStarts(s) = {}
    THEN <<>>
    ELSE word(slice(s, Least(VideoStarts(s)) - 1 + Len(VIDEO_HOST)))

\* get_role_and_content(response): the role and the content of the message
get_role_and_content(response) == <<response.role, response.content>>

-----------------------------------------------------------------------------
(* Outgoing messages *)

NoMessage == [type |-> "none"]
TextSendMessage(text) == [type |-> "text", text |-> text]
ImageSendMessage(original_content_url, preview_image_url) ==
    [type |-> "image", original_content_url |-> original_content_url,
     preview_image_url |-> preview_image_url]

-----------------------------------------------------------------------------
(* Inputs: the texts users send and the results the services give *)

Texts ==
    { <<47, 25351, 20196, 35498, 26126>>,                   \* '/指令說明'
      <<32, 47, 31995, 32113, 35338, 24687, 32, 84, 32>>,   \* ' /系統訊息 T '
      <<47, 31995, 32113, 35338, 24687>>,                   \* '/系統訊息'
      <<47, 28165, 38500>>,                                 \* '/清除'
      <<47, 28165, 38500, 32, 104, 105>>,                   \* '/清除 hi'
      <<47, 22294, 20687, 32, 104, 105>>,                   \* '/圖像 hi'
      <<47, 22294, 20687>>,                                 \* '/圖像'
      <<47, 71, 80, 84, 32, 104, 105>>,                     \* '/GPT hi'
      <<47, 71, 80, 84, 104, 105>>,                         \* '/GPThi'
      <<47, 71, 80, 84, 12288>>,                            \* '/GPT' and U+3000
      <<47, 71, 80, 84, 32, 104, 116, 116, 112, 58, 47, 47, 97>>,  \* '/GPT http://a'
      <<47, 71, 80, 84, 32, 104, 116, 116, 112, 58, 47, 47,
        121, 111, 117, 116, 117, 46, 98, 101, 47, 118>>,    \* '/GPT http://youtu.be/v'
      <<104, 105>>,                                         \* 'hi'
      <<47, 103, 112, 116, 32, 104, 105>>,                  \* '/gpt hi'
      <<104, 105, 32, 47, 28165, 38500>> }                  \* 'hi /清除'

\* error_message of a failed capability call
ErrorMessages ==
    { PREFIX_AUTH \o <<58, 32, 107>>,       \* 'Incorrect API key provided: k'
      PREFIX_OVERLOADED,
      <<98, 111, 111, 109>> }               \* 'boom'

\* the message of a chat completion and of a summary
ChatResponses == { [role |-> "assistant", content |-> <<111, 107>>] }    \* 'ok'
SummaryResponses == { [role |-> "assistant", content |-> <<115, 117, 109>>] } \* 'sum'
\* response['data'][0]['url']
ImageUrls == { <<104, 116, 116, 112, 58, 47, 47, 105>> }                 \* 'http://i'
\* chunks of a transcript; chunks of a page, none when nothing was extracted
TranscriptChunks == { << <<99, 49>> >> }
WebsiteChunks == { <<>>, << <<99, 49>> >> }
\* response['text'] of a transcription
Transcriptions ==
    { <<104, 105>>,                                          \* 'hi'
      <<47, 28165, 38500, 32, 104, 116, 116, 112, 58, 47, 47, 97>> }  \* '/清除 http://a'

-----------------------------------------------------------------------------
(* A handler invocation *)

Idle ==
    [pc |-> "idle", kind |-> "none", user |-> "none", text |-> <<>>,
     branch |-> "none", prompt |-> <<>>, msg |-> NoMessage, failed |-> FALSE,
     error |-> <<>>, response |-> [role |-> "none", content |-> <<>>],
     replies |-> <<>>, calls |-> <<>>,
     pre |-> [u \in Users |-> FreshRecord]]

\* a capability call the handler made, with what it was given
Call(cap, arg) == [cap |-> cap, arg |-> arg]

\* the invocation of a handler for user u and message text raw:
\* text = event.message.text.strip(); pre is the memory it found
Invocation(kind, u, raw) ==
    [Idle EXCEPT !.kind = kind, !.user = u, !.text = strip(raw), !.pre = memory]

Busy(t) == h[t].pc # "idle"

\* a handler of user u is running
Handling(u) == \E t \in Threads : Busy(t) /\ h[t].user = u

\* some handler is running
Overlapping == \E t \in Threads : Busy(t)

\* lines 41-47: callback runs the handler on the thread of the request,
\* whatever the other threads are doing; the first free thread of the model
\* takes the event, within the bounds of the run
Accepts(t, u) ==
    /\ ~ Busy(t)
    /\ \A t2 \in Threads : ~ Busy(t2) => t <= t2
    /\ events < MaxEvents
    /\ Overlapping => events < MaxOverlapEvents

\* the event is counted; two handlers of u overlap when one is running
Deliver(u) ==
    /\ events' = events + 1
    /\ raced' = [raced EXCEPT ![u] = @ \/ Handling(u)]
    /\ UNCHANGED storage

-----------------------------------------------------------------------------
(* handle_text_message, lines 55-137 *)

\* a dispatch without the test of line 65, ending in a plain else
dispatch_no_guard(text) ==
    IF startswith(text, cmd_help) THEN "help"
    ELSE IF startswith(text, cmd_system) THEN "system"
    ELSE IF startswith(text, cmd_clear) THEN "clear"
    ELSE IF startswith(text, cmd_image) THEN "image"
    ELSE "chat"

\* a dispatch that takes /清除 only when nothing follows it
dispatch_exact_clear(text) ==
    IF ~ \E i \in 1..Len(commands) : startswith(text, commands[i]) THEN "none"
    ELSE IF startswith(text, cmd_help) THEN "help"
    ELSE IF startswith(text, cmd_system) THEN "system"
    ELSE IF text = cmd_clear THEN "clear"
    ELSE IF startswith(text, cmd_image) THEN "image"
    ELSE "chat"

\* lines 65-90: the branch taken for the stripped text
dispatch(text) ==
    IF ~ \E i \in 1..Len(commands) : startswith(text, commands[i]) THEN "none"
    ELSE IF startswith(text, cmd_help) THEN "help"
    ELSE IF startswith(text, cmd_system) THEN "system"
    ELSE IF startswith(text, cmd_clear) THEN "clear"
    ELSE IF startswith(text, cmd_image) THEN "image"
    ELSE IF startswith(text, cmd_chat) THEN "chat"
    ELSE "unbound"

\* text[4:].strip() for the five characters of /系統訊息
system_argument_short(text) == strip(slice(text, 4))

\* line 70: text[5:].strip()
system_argument(text) == strip(slice(text, 5))

\* line 78: prompt = text[3:].strip()
image_prompt(text) == strip(slice(text, 3))

\* line 91: prompt = text[4:].strip()
chat_prompt(text) == strip(slice(text, 4))

\* a handler without the test of line 92
prompt_missing_never(prompt) == FALSE

\* line 92: if not prompt
prompt_missing(prompt) == prompt = <<>>

\* a /清除 that only replies
on_clear_keep(m, u) == m

\* line 74: memory.remove(user_id)
on_clear(m, u) == Memory_remove(m, u)

\* the bare history, without the system message
chat_completions_input_history(m, u) == m[u].history

\* line 119: the history given to model.chat_completions
chat_completions_input(m, u) == Memory_get(m, u)

\* a handler that replies without storing the response
on_chat_response_dropped(m, u, role, response) == m

\* line 124: memory.append(user_id, role, response)
on_chat_response(m, u, role, response) == Memory_append(m, u, role, response)

\* an except block that leaves the history as it is
on_exception_keep(m, u) == m

\* the history of every user emptied
on_exception_all(m, u) == [v \in Users |-> Memory_remove(m, v)[v]]

\* line 130: memory.remove(user_id) in the except block
on_exception(m, u) == Memory_remove(m, u)

\* every exception answered with its own text
except_message_verbatim(e) == e

\* lines 131-136: the text replied for an exception whose str() is e
except_message(e) ==
    IF startswith(e, PREFIX_AUTH) THEN TEXT_AUTH
    ELSE IF startswith(e, PREFIX_OVERLOADED) THEN TEXT_OVERLOADED
    ELSE e

\* lines 162-165: the same in handle_audio_message
audio_except_message(e) ==
    IF startswith(e, PREFIX_AUTH) THEN TEXT_AUTH ELSE e

\* the invocation after the branch was chosen
Dispatched(t, u, raw) ==
    [Invocation("text", u, raw) EXCEPT !.branch = dispatch(strip(raw))]

\* lines 125-127: no known prefix, the handler returns without a reply
text_unrecognized(t, u, raw) ==
    /\ Accepts(t, u)
    /\ dispatch(strip(raw)) = "none"
    /\ h' = [h EXCEPT ![t] = [Dispatched(t, u, raw) EXCEPT !.pc = "done"]]
    /\ Deliver(u)
    /\ UNCHANGED <<memory, appended, latest_system>>

\* lines 66-67
text_help(t, u, raw) ==
    /\ Accepts(t, u)
    /\ dispatch(strip(raw)) = "help"
    /\ h' = [h EXCEPT ![t] = [Dispatched(t, u, raw) EXCEPT
                !.pc = "reply", !.msg = TextSendMessage(TEXT_HELP)]]
    /\ Deliver(u)
    /\ UNCHANGED <<memory, appended, latest_system>>

\* lines 69-71
text_system(t, u, raw) ==
    /\ Accepts(t, u)
    /\ dispatch(strip(raw)) = "system"
    /\ memory' = Memory_change_system_message(memory, u, system_argument(strip(raw)))
    /\ h' = [h EXCEPT ![t] = [Dispatched(t, u, raw) EXCEPT
                !.pc = "reply", !.msg = TextSendMessage(TEXT_SYSTEM_OK)]]
    /\ latest_system' = [latest_system EXCEPT
                            ![u] = strip(slice(strip(raw), Len(cmd_system)))]
    /\ Deliver(u)
    /\ UNCHANGED appended

\* lines 73-75
text_clear(t, u, raw) ==
    /\ Accepts(t, u)
    /\ dispatch(strip(raw)) = "clear"
    /\ memory' = on_clear(memory, u)
    /\ appended' = [appended EXCEPT ![u] = <<>>]
    /\ h' = [h EXCEPT ![t] = [Dispatched(t, u, raw) EXCEPT
                !.pc = "reply", !.msg = TextSendMessage(TEXT_CLEARED)]]
    /\ Deliver(u)
    /\ UNCHANGED latest_system

\* the image generation called with no user turn appended
text_image_unappended(t, u, raw) ==
    /\ Accepts(t, u)
    /\ dispatch(strip(raw)) = "image"
    /\ LET prompt == image_prompt(strip(raw)) IN
        h' = [h EXCEPT ![t] = [Dispatched(t, u, raw) EXCEPT
                !.pc = "image_generations", !.prompt = prompt,
                !.calls = <<Call("image_generations", prompt)>>]]
    /\ Deliver(u)
    /\ UNCHANGED <<memory, appended, latest_system>>

\* lines 77-80: the user turn is appended, then model.image_generations(prompt)
\* is called
text_image(t, u, raw) ==
    /\ Accepts(t, u)
    /\ dispatch(strip(raw)) = "image"
    /\ LET prompt == image_prompt(strip(raw)) IN
        /\ memory' = Memory_append(memory, u, "user", prompt)
        /\ appended' = [appended EXCEPT ![u] = Append(@, Entry("user", prompt))]
        /\ h' = [h EXCEPT ![t] = [Dispatched(t, u, raw) EXCEPT
                    !.pc = "image_generations", !.prompt = prompt,
                    !.calls = <<Call("image_generations", prompt)>>]]
    /\ Deliver(u)
    /\ UNCHANGED latest_system

\* lines 90-93: /GPT without a prompt
text_chat_no_prompt(t, u, raw) ==
    /\ Accepts(t, u)
    /\ dispatch(strip(raw)) = "chat"
    /\ prompt_missing(chat_prompt(strip(raw)))
    /\ h' = [h EXCEPT ![t] = [Dispatched(t, u, raw) EXCEPT
                !.pc = "reply", !.msg = TextSendMessage(TEXT_PROMPT_REQUIRED)]]
    /\ Deliver(u)
    /\ UNCHANGED <<memory, appended, latest_system>>

\* every prompt sent on to the chat completion, a URL in it or not
text_chat_always_completes(t, u, raw) ==
    /\ Accepts(t, u)
    /\ dispatch(strip(raw)) = "chat"
    /\ LET prompt == chat_prompt(strip(raw)) IN
        /\ ~ prompt_missing(prompt)
        /\ memory' = Memory_append(memory, u, "user", prompt)
        /\ appended' = [appended EXCEPT ![u] = Append(@, Entry("user", prompt))]
        /\ h' = [h EXCEPT ![t] = [Dispatched(t, u, raw) EXCEPT
                    !.pc = "memory_get", !.prompt = prompt]]
    /\ Deliver(u)
    /\ UNCHANGED latest_system

\* lines 95-99, 109: the user turn is appended, then the route is chosen:
\* with a URL in the prompt the first call is made, the transcript of a
\* video or the content of a page; without one the handler goes on to
\* line 119
text_chat(t, u, raw) ==
    /\ Accepts(t, u)
    /\ dispatch(strip(raw)) = "chat"
    /\ LET prompt == chat_prompt(strip(raw))
           url == get_url_from_text(prompt)
           first ==
               IF retrieve_video_id(prompt) # <<>>
               THEN Call("get_transcript_chunks", retrieve_video_id(prompt))
               ELSE Call("get_content_from_url", url)
       IN
        /\ ~ prompt_missing(prompt)
        /\ memory' = Memory_append(memory, u, "user", prompt)
        /\ appended' = [appended EXCEPT ![u] = Append(@, Entry("user", prompt))]
        /\ h' = [h EXCEPT ![t] =
                    IF url # <<>>
                    THEN [Dispatched(t, u, raw) EXCEPT
                            !.pc = first.cap, !.prompt = prompt,
                            !.calls = <<first>>]
                    ELSE [Dispatched(t, u, raw) EXCEPT
                            !.pc = "memory_get", !.prompt = prompt]]
    /\ Deliver(u)
    /\ UNCHANGED latest_system

\* line 119: memory.get(user_id) is read, as it is by now, and given to
\* model.chat_completions
memory_get(t) ==
    /\ h[t].pc = "memory_get"
    /\ h' = [h EXCEPT ![t].pc = "chat_completions",
                      ![t].calls = <<Call("chat_completions",
                                          chat_completions_input(memory, h[t].user))>>]
    /\ UNCHANGED <<memory, appended, latest_system, events, storage, raced>>

\* lines 129-136: an exception whose str() is e reaches the except block
Except(t, e) ==
    /\ memory' = on_exception(memory, h[t].user)
    /\ appended' = [appended EXCEPT ![h[t].user] = <<>>]
    /\ h' = [h EXCEPT ![t].pc = "reply", ![t].failed = TRUE, ![t].error = e,
                      ![t].msg = TextSendMessage(except_message(e))]
    /\ UNCHANGED <<latest_system, events, storage, raced>>

\* lines 80-82: model.image_generations failed
image_generations_failed(t, e) ==
    /\ h[t].pc = "image_generations"
    /\ Except(t, e)

\* the image URL appended under the role 'user'
image_generations_ok_as_user(t, url) ==
    /\ h[t].pc = "image_generations"
    /\ memory' = Memory_append(memory, h[t].user, "user", url)
    /\ appended' = [appended EXCEPT ![h[t].user] = Append(@, Entry("user", url))]
    /\ h' = [h EXCEPT ![t].pc = "reply", ![t].msg = ImageSendMessage(url, url)]
    /\ UNCHANGED <<latest_system, events, storage, raced>>

\* lines 83-88: the image message is built, the assistant turn appended
image_generations_ok(t, url) ==
    /\ h[t].pc = "image_generations"
    /\ memory' = Memory_append(memory, h[t].user, "assistant", url)
    /\ appended' = [appended EXCEPT ![h[t].user] = Append(@, Entry("assistant", url))]
    /\ h' = [h EXCEPT ![t].pc = "reply", ![t].msg = ImageSendMessage(url, url)]
    /\ UNCHANGED <<latest_system, events, storage, raced>>

\* lines 99-101: youtube.get_transcript_chunks failed
get_transcript_chunks_failed(t, e) ==
    /\ h[t].pc = "get_transcript_chunks"
    /\ Except(t, e)

\* lines 102-103: the transcript is given to the summarizer
get_transcript_chunks_ok(t, chunks) ==
    /\ h[t].pc = "get_transcript_chunks"
    /\ h' = [h EXCEPT ![t].pc = "summarize",
                      ![t].calls = Append(@, Call("summarize", chunks))]
    /\ UNCHANGED <<memory, appended, latest_system, events, storage, raced>>

\* line 109: website.get_content_from_url raised inside the try
get_content_from_url_failed(t, e) ==
    /\ h[t].pc = "get_content_from_url"
    /\ Except(t, e)

\* lines 109-113: the page content; no chunk at all is an error
get_content_from_url_done(t, chunks) ==
    /\ h[t].pc = "get_content_from_url"
    /\ IF Len(chunks) = 0
       THEN Except(t, TEXT_NO_CONTENT)
       ELSE /\ h' = [h EXCEPT ![t].pc = "summarize",
                              ![t].calls = Append(@, Call("summarize", chunks))]
            /\ UNCHANGED <<memory, appended, latest_system, events, storage, raced>>

\* the tail of a successful /GPT command, lines 106-107, 116-117, 122-124
ChatDone(t, response) ==
    LET rc == get_role_and_content(response) IN
    /\ memory' = on_chat_response(memory, h[t].user, rc[1], rc[2])
    /\ appended' = [appended EXCEPT ![h[t].user] = Append(@, Entry(rc[1], rc[2]))]
    /\ h' = [h EXCEPT ![t].pc = "reply", ![t].response = response,
                      ![t].msg = TextSendMessage(rc[2])]
    /\ UNCHANGED <<latest_system, events, storage, raced>>

\* lines 103-105, 113-115: summarize failed
summarize_failed(t, e) ==
    /\ h[t].pc = "summarize"
    /\ Except(t, e)

\* lines 106-107, 116-117, 124
summarize_ok(t, response) ==
    /\ h[t].pc = "summarize"
    /\ ChatDone(t, response)

\* lines 119-121: model.chat_completions failed
chat_completions_failed(t, e) ==
    /\ h[t].pc = "chat_completions"
    /\ Except(t, e)

\* lines 122-124
chat_completions_ok(t, response) ==
    /\ h[t].pc = "chat_completions"
    /\ ChatDone(t, response)

-----------------------------------------------------------------------------
(* handle_audio_message, lines 140-167 *)

\* lines 160-165: the except block of the audio handler
AudioExcept(t, e) ==
    /\ memory' = on_exception(memory, h[t].user)
    /\ appended' = [appended EXCEPT ![h[t].user] = <<>>]
    /\ h' = [h EXCEPT ![t].pc = "reply", ![t].failed = TRUE, ![t].error = e,
                      ![t].msg = TextSendMessage(audio_except_message(e))]
    /\ UNCHANGED <<latest_system, events, storage, raced>>

\* lines 141-143: the handler asks the platform for the audio content
audio_event(t, u) ==
    /\ Accepts(t, u)
    /\ h' = [h EXCEPT ![t] = [Invocation("audio", u, <<>>) EXCEPT
                !.pc = "get_message_content", !.branch = "audio"]]
    /\ Deliver(u)
    /\ UNCHANGED <<memory, appended, latest_system>>

\* lines 143-147 are outside the try: when the download or the write of the
\* file raises, the exception leaves the handler; no reply, no memory call
get_message_content_failed(t, e) ==
    /\ h[t].pc = "get_message_content"
    /\ h' = [h EXCEPT ![t].pc = "escaped", ![t].error = e]
    /\ UNCHANGED <<memory, appended, latest_system, events, storage, raced>>

\* lines 144-150: the audio is written to a file and
\* model.audio_transcriptions called on it
get_message_content_ok(t) ==
    /\ h[t].pc = "get_message_content"
    /\ h' = [h EXCEPT ![t].pc = "audio_transcriptions",
                      ![t].calls = <<Call("audio_transcriptions", <<>>)>>]
    /\ UNCHANGED <<memory, appended, latest_system, events, storage, raced>>

\* lines 150-152
audio_transcriptions_failed(t, e) ==
    /\ h[t].pc = "audio_transcriptions"
    /\ AudioExcept(t, e)

\* the transcribed text kept by the handler and not appended
audio_transcriptions_ok_unappended(t, text) ==
    /\ h[t].pc = "audio_transcriptions"
    /\ h' = [h EXCEPT ![t].pc = "audio_memory_get", ![t].prompt = text]
    /\ UNCHANGED <<memory, appended, latest_system, events, storage, raced>>

\* line 153: the transcribed text is appended as the user turn
audio_transcriptions_ok(t, text) ==
    /\ h[t].pc = "audio_transcriptions"
    /\ memory' = Memory_append(memory, h[t].user, "user", text)
    /\ appended' = [appended EXCEPT ![h[t].user] = Append(@, Entry("user", text))]
    /\ h' = [h EXCEPT ![t].pc = "audio_memory_get", ![t].prompt = text]
    /\ UNCHANGED <<latest_system, events, storage, raced>>

\* line 154: memory.get(user_id) is read, as it is by now, and given to
\* model.chat_completions
audio_memory_get(t) ==
    /\ h[t].pc = "audio_memory_get"
    /\ h' = [h EXCEPT ![t].pc = "audio_chat_completions",
                      ![t].calls = Append(@, Call("chat_completions",
                                                  Memory_get(memory, h[t].user)))]
    /\ UNCHANGED <<memory, appended, latest_system, events, storage, raced>>

\* lines 154-156
audio_chat_completions_failed(t, e) ==
    /\ h[t].pc = "audio_chat_completions"
    /\ AudioExcept(t, e)

\* the answer replied and not appended
audio_chat_completions_ok_unappended(t, response) ==
    /\ h[t].pc = "audio_chat_completions"
    /\ h' = [h EXCEPT ![t].pc = "reply", ![t].response = response,
                      ![t].msg = TextSendMessage(get_role_and_content(response)[2])]
    /\ UNCHANGED <<memory, appended, latest_system, events, storage, raced>>

\* lines 157-159
audio_chat_completions_ok(t, response) ==
    /\ h[t].pc = "audio_chat_completions"
    /\ LET rc == get_role_and_content(response) IN
        /\ memory' = Memory_append(memory, h[t].user, rc[1], rc[2])
        /\ appended' = [appended EXCEPT ![h[t].user] = Append(@, Entry(rc[1], rc[2]))]
        /\ h' = [h EXCEPT ![t].pc = "reply", ![t].response = response,
                          ![t].msg = TextSendMessage(rc[2])]
    /\ UNCHANGED <<latest_system, events, storage, raced>>

-----------------------------------------------------------------------------
(* The end of both handlers *)

\* lines 137 and 167: line_bot_api.reply_message(event.reply_token, msg)
reply_message(t) ==
    /\ h[t].pc = "reply"
    /\ h' = [h EXCEPT ![t].pc = "done", ![t].replies = Append(@, h[t].msg)]
    /\ UNCHANGED <<memory, appended, latest_system, events, storage, raced>>

\* lines 137 and 167 are outside the try: when line_bot_api.reply_message
\* raises, the exception leaves the handler; no reply is sent and the memory
\* stays as the handler changed it
reply_message_failed(t, e) ==
    /\ h[t].pc = "reply"
    /\ h' = [h EXCEPT ![t].pc = "escaped", ![t].error = e]
    /\ UNCHANGED <<memory, appended, latest_system, events, storage, raced>>

\* line 166 is outside the try as well: when os.remove raises in the audio
\* handler, line 167 is not reached
os_remove_failed(t, e) ==
    /\ h[t].pc = "reply"
    /\ h[t].kind = "audio"
    /\ h' = [h EXCEPT ![t].pc = "escaped", ![t].error = e]
    /\ UNCHANGED <<memory, appended, latest_system, events, storage, raced>>

\* the handler returns to handler.handle (line 47); the thread is free again
handler_return(t) ==
    /\ h[t].pc = "done"
    /\ h' = [h EXCEPT ![t] = Idle]
    /\ UNCHANGED <<memory, appended, latest_system, events, storage, raced>>

\* the exception leaves handler.handle (line 47), which callback guards
\* against InvalidSignatureError only (line 48); the thread is free again
handler_raise(t) ==
    /\ h[t].pc = "escaped"
    /\ h' = [h EXCEPT ![t] = Idle]
    /\ UNCHANGED <<memory, appended, latest_system, events, storage, raced>>

-----------------------------------------------------------------------------
(* The system *)

\* lines 35-39 and 176-180: the objects as constructed; the storage holds
\* no record (FreshRecord stands for not found)
Constructed ==
    /\ memory = [u \in Users |-> FreshRecord]
    /\ appended = [u \in Users |-> <<>>]
    /\ latest_system = [u \in Users |-> SYSTEM_MESSAGE]
    /\ h = [t \in Threads |-> Idle]
    /\ events = 0
    /\ storage = [u \in Users |-> FreshRecord]
    /\ raced = [u \in Users |-> FALSE]

Init == Constructed

\* the texts that arrive while a handler is running: one for every branch
\* of the handler
OverlapTexts ==
    { <<47, 25351, 20196, 35498, 26126>>,                   \* '/指令說明'
      <<32, 47, 31995, 32113, 35338, 24687, 32, 84, 32>>,   \* ' /系統訊息 T '
      <<47, 28165, 38500>>,                                 \* '/清除'
      <<47, 22294, 20687, 32, 104, 105>>,                   \* '/圖像 hi'
      <<47, 71, 80, 84, 32, 104, 105>>,                     \* '/GPT hi'
      <<47, 71, 80, 84, 12288>>,                            \* '/GPT' and U+3000
      <<47, 71, 80, 84, 32, 104, 116, 116, 112, 58, 47, 47, 97>>,  \* '/GPT http://a'
      <<47, 71, 80, 84, 32, 104, 116, 116, 112, 58, 47, 47,
        121, 111, 117, 116, 117, 46, 98, 101, 47, 118>>,    \* '/GPT http://youtu.be/v'
      <<104, 105>> }                                        \* 'hi'
\* the texts of the deliveries after the first MaxVariedEvents
LateTexts == { <<47, 71, 80, 84, 32, 104, 105>> }           \* '/GPT hi'
\* what a failing download or file write raises
ContentErrors == { <<52, 48, 52>> }                         \* '404'
\* what a failing reply_message raises
ReplyErrors == { <<116, 111, 107, 101, 110>> }              \* 'token'
\* what a failing os.remove raises
FileErrors == { <<69, 78, 79, 69, 78, 84>> }                \* 'ENOENT'

Next ==
    \E t \in Threads :
        \/ \E u \in Users, raw \in IF Overlapping THEN OverlapTexts
                                  ELSE IF events < MaxVariedEvents THEN Texts
                                  ELSE LateTexts :
            \/ text_unrecognized(t, u, raw)
            \/ text_help(t, u, raw)
            \/ text_system(t, u, raw)
            \/ text_clear(t, u, raw)
            \/ text_image(t, u, raw)
            \/ text_chat_no_prompt(t, u, raw)
            \/ text_chat(t, u, raw)
        \/ \E u \in Users : events < MaxVariedEvents /\ audio_event(t, u)
        \/ \E e \in ErrorMessages :
            \/ image_generations_failed(t, e)
            \/ get_transcript_chunks_failed(t, e)
            \/ get_content_from_url_failed(t, e)
            \/ summarize_failed(t, e)
            \/ chat_completions_failed(t, e)
            \/ audio_transcriptions_failed(t, e)
            \/ audio_chat_completions_failed(t, e)
        \/ \E e \in ContentErrors : get_message_content_failed(t, e)
        \/ \E url \in ImageUrls : image_generations_ok(t, url)
        \/ \E chunks \in TranscriptChunks : get_transcript_chunks_ok(t, chunks)
        \/ \E chunks \in WebsiteChunks : get_content_from_url_done(t, chunks)
        \/ \E response \in SummaryResponses : summarize_ok(t, response)
        \/ \E response \in ChatResponses :
            \/ chat_completions_ok(t, response)
            \/ audio_chat_completions_ok(t, response)
        \/ \E text \in Transcriptions : audio_transcriptions_ok(t, text)
        \/ memory_get(t)
        \/ get_message_content_ok(t)
        \/ audio_memory_get(t)
        \/ reply_message(t)
        \/ \E e \in ReplyErrors : reply_message_failed(t, e)
        \/ \E e \in FileErrors : os_remove_failed(t, e)
        \/ handler_return(t)
        \/ handler_raise(t)

Spec == Init /\ [][Next]_vars

-----------------------------------------------------------------------------
(* Properties *)

\* the max_turns = 2 of the sliding-window claim
max_turns == 2

\* section 5 has the deliveries of one user handled one at a time: the
\* handler of t has the record of its user to itself when no two handlers of
\* that user ever overlapped
Unraced(t) == ~ raced[h[t].user]

\* the invocation a step of thread t belongs to
StepOf(t) == IF h[t].pc = "idle" THEN h'[t] ELSE h[t]

\* the handler of t reached line 137 (line 166 in the audio handler) with
\* its message: the reply is about to be sent, was sent, or the exception of
\* a raising reply_message or os.remove left the handler
AtReply(t) ==
    \/ h[t].pc \in {"reply", "done"}
    \/ h[t].pc = "escaped" /\ h[t].msg # NoMessage

History(u) == memory[u].history

\* the entries a log of appends leaves in the window: all of them up to
\* 2 * max_turns, then the latest 2 * max_turns when every turn is complete
\* and one less while a user entry waits for its assistant entry
Window(log) ==
    LET n == Len(log)
        k == IF n <= 2 * max_turns THEN n
             ELSE IF n % 2 = 0 THEN 2 * max_turns ELSE 2 * max_turns - 1
    IN SubSeq(log, n - k + 1, n)

Paired(hist) ==
    /\ Len(hist) % 2 = 0
    /\ \A i \in 1..Len(hist) :
        hist[i].role = IF i % 2 = 1 THEN "user" ELSE "assistant"

\* the entries of the log of appends that are no longer in the history
Evicted(u) == SubSeq(appended[u], 1, Len(appended[u]) - Len(History(u)))

\* user and assistant entries in turn, a user entry first
Alternating(log) ==
    \A i \in 1..Len(log) :
        log[i].role = IF i % 2 = 1 THEN "user" ELSE "assistant"

FailedCommand(t) ==
    /\ h[t].pc = "done"
    /\ h[t].kind = "text"
    /\ h[t].branch \in {"image", "chat"}
    /\ h[t].failed

\* C2: when the handler of a /圖像 or /GPT command ends after a capability
\* or a content extraction failed, exactly one reply, a text, was sent and,
\* no other handler of the user having overlapped, the acting user's
\* history is empty
C2_FailureClearsAndReplies ==
    \A t \in Threads :
        FailedCommand(t)
            => /\ Unraced(t) => History(h[t].user) = <<>>
               /\ Len(h[t].replies) = 1
               /\ h[t].replies[1].type = "text"

\* a /GPT command of a user with earlier turns failed for want of chunks
C2_Witness ==
    \E t \in Threads :
        /\ FailedCommand(t)
        /\ Unraced(t)
        /\ h[t].error = TEXT_NO_CONTENT
        /\ h[t].pre[h[t].user].history # <<>>

\* a capability call or content extraction of a handler of u is pending
InFlight(u) ==
    \E t \in Threads :
        /\ h[t].user = u
        /\ h[t].pc # "idle"
        /\ ~ AtReply(t)

\* C3: with the events of a user handled one at a time, unless a handler
\* of the user is between its delivery and its last memory call, the
\* history is empty or made of user entries each followed by an assistant
\* entry
C3_NoHalfAppliedTurn ==
    \A u \in Users : (~ raced[u] /\ ~ InFlight(u)) => Paired(History(u))

\* a failed command emptied a history that held turns, and no handler runs
C3_Witness ==
    \E t \in Threads :
        /\ h[t].pc = "done"
        /\ h[t].failed
        /\ Unraced(t)
        /\ ~ InFlight(h[t].user)
        /\ h[t].pre[h[t].user].history # <<>>
        /\ h[t].calls # <<>>
        /\ \E u \in Users : u # h[t].user /\ Len(History(u)) = 2

\* the trimmed remainder of text after the command prefix cmd
Rest(text, cmd) == strip(SubSeq(text, Len(cmd) + 1, Len(text)))

\* C4: every history given to a chat completion starts with a system
\* entry and holds no other; with the events of the user handled one at a
\* time it is the acting user's current system message (the default, or
\* the text of the latest /系統訊息 command), followed by the user entry at
\* least
C4_SystemMessageFirst ==
    \A t \in Threads : \A i \in 1..Len(h[t].calls) :
        h[t].calls[i].cap = "chat_completions"
            => LET arg == h[t].calls[i].arg IN
               /\ Len(arg) >= 1
               /\ arg[1].role = "system"
               /\ Unraced(t)
                    => /\ Len(arg) >= 2
                       /\ arg[1] = Entry("system", latest_system[h[t].user])
               /\ \A j \in 2..Len(arg) : arg[j].role # "system"

\* a chat completion is pending for a user who set the system message 'T'
\* and has an earlier turn in the history
C4_Witness ==
    \E t \in Threads :
        /\ h[t].pc = "chat_completions"
        /\ Unraced(t)
        /\ latest_system[h[t].user] = <<84>>
        /\ h[t].calls[1].arg[1].content = <<84>>
        /\ Len(h[t].calls[1].arg) = 4

\* a /GPT command with a prompt
ChatCommand(t) ==
    /\ h[t].kind = "text"
    /\ startswith(h[t].text, cmd_chat)
    /\ Rest(h[t].text, cmd_chat) # <<>>

\* C5: with the events of the user handled one at a time, from the
\* delivery of a /GPT command with a prompt until its calls have answered
\* the history is the one the handler found plus the user entry of the
\* prompt; after success it is that plus the produced (role, content), the
\* reply is one text equal to the appended content
C5_ChatAppendsTurn ==
    \A t \in Threads :
        (ChatCommand(t) /\ Unraced(t))
            => LET u == h[t].user
                   before == h[t].pre[u].history
                   turn == Entry("user", Rest(h[t].text, cmd_chat))
                   produced == Entry(h[t].response.role, h[t].response.content)
               IN
               /\ h[t].pc \in {"memory_get", "get_transcript_chunks",
                               "get_content_from_url", "summarize",
                               "chat_completions"}
                    => /\ History(u) = Window(before \o <<turn>>)
                       /\ h[t].response.role = "none"
               /\ (AtReply(t) /\ ~ h[t].failed)
                    => /\ h[t].response \in ChatResponses \cup SummaryResponses
                       /\ History(u) = Window(before \o <<turn, produced>>)
                       /\ h[t].msg = TextSendMessage(History(u)[Len(History(u))].content)
               /\ (h[t].pc = "done" /\ ~ h[t].failed)
                    => h[t].replies = <<h[t].msg>>
               /\ h[t].pc # "done" => h[t].replies = <<>>

\* a /GPT command succeeded for a user whose window was full
C5_Witness ==
    \E t \in Threads :
        /\ ChatCommand(t)
        /\ Unraced(t)
        /\ h[t].pc = "done"
        /\ ~ h[t].failed
        /\ Len(h[t].pre[h[t].user].history) = 2 * max_turns

\* the text starts with none of the command prefixes
Unrecognized(text) ==
    \A i \in 1..Len(commands) : ~ startswith(text, commands[i])

\* C6: a text that starts with no command prefix ends the handler with no
\* reply and no capability call, and no step of its handler changes the
\* system message or the history of any user
C6_UnrecognizedIsNoOp ==
    /\ [](\A t \in Threads :
            (h[t].kind = "text" /\ Unrecognized(h[t].text))
                => /\ h[t].pc = "done"
                   /\ h[t].replies = <<>>
                   /\ h[t].msg = NoMessage
                   /\ h[t].calls = <<>>)
    /\ [][\A t \in Threads :
            (/\ h'[t] # h[t]
             /\ StepOf(t).kind = "text"
             /\ Unrecognized(StepOf(t).text))
                => memory' = memory
        ]_vars

\* '/gpt hi' was ignored for a user who has a history
C6_Witness ==
    \E t \in Threads :
        /\ h[t].kind = "text"
        /\ h[t].text = <<47, 103, 112, 116, 32, 104, 105>>
        /\ h[t].pc = "done"
        /\ History(h[t].user) # <<>>

\* the handler the command table selects: the first of 指令說明, 系統訊息,
\* 清除, 圖像, GPT whose prefix the text starts with
Selected(text) ==
    LET matches == {i \in 1..Len(commands) : startswith(text, commands[i])} IN
    IF matches = {}
    THEN "none"
    ELSE <<"help", "system", "clear", "image", "chat">>[Least(matches)]

\* the handler that ran, by what it did: its first capability call or, when
\* it made none, the read of line 119 it is about to do or its message
Ran(t) ==
    IF h[t].calls # <<>>
    THEN IF h[t].calls[1].cap = "image_generations" THEN "image" ELSE "chat"
    ELSE IF h[t].pc = "memory_get" THEN "chat"
    ELSE IF h[t].msg = TextSendMessage(TEXT_HELP) THEN "help"
    ELSE IF h[t].msg = TextSendMessage(TEXT_SYSTEM_OK) THEN "system"
    ELSE IF h[t].msg = TextSendMessage(TEXT_CLEARED) THEN "clear"
    ELSE IF h[t].msg = TextSendMessage(TEXT_PROMPT_REQUIRED) THEN "chat"
    ELSE "none"

\* C7: the handler that runs for a text is the first of help, system, clear,
\* image, chat whose prefix the trimmed text starts with, none when no
\* prefix matches; a text that starts with the clear prefix is handled as
\* clear whatever follows: the confirmation is the message, no capability
\* is called and the history is emptied (and stays so until the handler has
\* returned when the events of the user are handled one at a time)
C7_PrefixPriority ==
    \A t \in Threads :
        h[t].kind = "text"
            => /\ h[t].branch = Selected(h[t].text)
               /\ Ran(t) = Selected(h[t].text)
               /\ startswith(h[t].text, cmd_clear)
                    => /\ AtReply(t)
                       /\ h[t].msg = TextSendMessage(TEXT_CLEARED)
                       /\ h[t].calls = <<>>
                       /\ Unraced(t) => History(h[t].user) = <<>>

\* '/清除 hi' emptied a history and was answered with the confirmation
C7_Witness ==
    \E t \in Threads :
        /\ h[t].kind = "text"
        /\ Unraced(t)
        /\ h[t].text = <<47, 28165, 38500, 32, 104, 105>>
        /\ h[t].pc = "done"
        /\ h[t].pre[h[t].user].history # <<>>
        /\ History(h[t].user) = <<>>
        /\ h[t].replies = <<TextSendMessage(TEXT_CLEARED)>>

\* C8: /系統訊息 calls no capability and does not fail; its delivery sets
\* the acting user's system message to the trimmed remainder of the text
\* and no step of its handler changes the history of any user; with the
\* events of the user handled one at a time the system message and the
\* history stay so until the handler has returned
C8_SystemKeepsHistory ==
    /\ [](\A t \in Threads :
            (h[t].kind = "text" /\ startswith(h[t].text, cmd_system))
                => LET u == h[t].user IN
                   /\ AtReply(t)
                   /\ h[t].calls = <<>>
                   /\ ~ h[t].failed
                   /\ Unraced(t)
                        => /\ memory[u].system_message
                                = Rest(h[t].text, cmd_system)
                           /\ History(u) = h[t].pre[u].history)
    /\ [][\A t \in Threads :
            (/\ h'[t] # h[t]
             /\ StepOf(t).kind = "text"
             /\ startswith(StepOf(t).text, cmd_system))
                => /\ \A u \in Users : memory'[u].history = memory[u].history
                   /\ h[t].pc = "idle"
                        => memory'[h'[t].user].system_message
                             = Rest(h'[t].text, cmd_system)
        ]_vars

\* the system message of a user with a history was changed to 'T'
C8_Witness ==
    \E t \in Threads :
        /\ h[t].kind = "text"
        /\ Unraced(t)
        /\ startswith(h[t].text, cmd_system)
        /\ h[t].pc = "done"
        /\ h[t].pre[h[t].user].system_message # <<84>>
        /\ memory[h[t].user].system_message = <<84>>
        /\ Len(History(h[t].user)) >= 2

\* C9: the reply to /清除 is the confirmation text; with the events of the
\* user handled one at a time, from its delivery on get returns only the
\* system message, which is the one the user had before
C9_ClearLeavesSystemMessage ==
    \A t \in Threads :
        (h[t].kind = "text" /\ startswith(h[t].text, cmd_clear))
            => LET u == h[t].user IN
               /\ AtReply(t)
               /\ Unraced(t)
                    => Memory_get(memory, u)
                         = <<Entry("system", h[t].pre[u].system_message)>>
               /\ h[t].msg = TextSendMessage(TEXT_CLEARED)
               /\ h[t].replies = IF h[t].pc = "done" THEN <<h[t].msg>> ELSE <<>>

\* /清除 emptied the history of a user whose system message is 'T'
C9_Witness ==
    \E t \in Threads :
        /\ h[t].kind = "text"
        /\ Unraced(t)
        /\ startswith(h[t].text, cmd_clear)
        /\ h[t].pc = "done"
        /\ h[t].pre[h[t].user].history # <<>>
        /\ h[t].pre[h[t].user].system_message = <<84>>

\* a /GPT command with nothing but blanks after the prefix
ChatNoPrompt(r) ==
    /\ r.kind = "text"
    /\ startswith(r.text, cmd_chat)
    /\ Rest(r.text, cmd_chat) = <<>>

\* C10: /GPT with nothing but blanks after it answers with the
\* prompt-required text, calls nothing and does not enter the except block;
\* no step of its handler changes the system message or the history of any
\* user
C10_EmptyChatPrompt ==
    /\ [](\A t \in Threads :
            ChatNoPrompt(h[t])
                => /\ AtReply(t)
                   /\ h[t].msg = TextSendMessage(TEXT_PROMPT_REQUIRED)
                   /\ h[t].calls = <<>>
                   /\ ~ h[t].failed
                   /\ h[t].replies
                        = IF h[t].pc = "done" THEN <<h[t].msg>> ELSE <<>>)
    /\ [][\A t \in Threads :
            (h'[t] # h[t] /\ ChatNoPrompt(StepOf(t))) => memory' = memory
        ]_vars

\* '/GPT' was answered for a user who has a history
C10_Witness ==
    \E t \in Threads :
        /\ h[t].kind = "text"
        /\ h[t].text = cmd_chat
        /\ h[t].pc = "done"
        /\ h[t].replies = <<TextSendMessage(TEXT_PROMPT_REQUIRED)>>
        /\ History(h[t].user) # <<>>

\* the capabilities a handler called, in the order of the calls
Caps(t) == [i \in 1..Len(h[t].calls) |-> h[t].calls[i].cap]

\* a /圖像 command with nothing but blanks after the prefix
ImageNoPrompt(t) ==
    /\ h[t].kind = "text"
    /\ startswith(h[t].text, cmd_image)
    /\ Rest(h[t].text, cmd_image) = <<>>

\* C11: /圖像 with an empty prompt is answered with a guidance text, calls
\* no capability, does not enter the except block and, with the events of
\* the user handled one at a time, leaves the record of the user as it was
C11_EmptyImagePrompt ==
    \A t \in Threads :
        ImageNoPrompt(t)
            => /\ AtReply(t)
               /\ h[t].msg.type = "text"
               /\ h[t].calls = <<>>
               /\ ~ h[t].failed
               /\ Unraced(t) => memory[h[t].user] = h[t].pre[h[t].user]

\* what lines 77-80 do instead: the empty prompt was appended as a user
\* turn and given to the image generation
C11_Witness ==
    \E t \in Threads :
        /\ ImageNoPrompt(t)
        /\ Unraced(t)
        /\ h[t].pc = "image_generations"
        /\ h[t].calls = <<Call("image_generations", <<>>)>>
        /\ History(h[t].user) = <<Entry("user", <<>>)>>

\* the handler of a /圖像 or /GPT command or of an audio event went through
\* its except block
Failed(t) ==
    /\ AtReply(t)
    /\ h[t].failed

\* C12: a failure whose error text starts with 'Incorrect API key provided'
\* is answered with the fixed text about the API key, one whose error text
\* starts with neither known prefix is answered with the error text itself;
\* either way the one reply is that text and, with the events of the user
\* handled one at a time, the acting user's history is empty; for /圖像,
\* /GPT and audio alike
C12_ErrorClassification ==
    \A t \in Threads :
        Failed(t)
            => /\ h[t].branch \in {"image", "chat", "audio"}
               /\ (h[t].pc # "escaped" /\ startswith(h[t].error, PREFIX_AUTH))
                    => h[t].msg = TextSendMessage(TEXT_AUTH)
               /\ (/\ h[t].pc # "escaped"
                   /\ ~ startswith(h[t].error, PREFIX_AUTH)
                   /\ ~ startswith(h[t].error, PREFIX_OVERLOADED))
                    => h[t].msg = TextSendMessage(h[t].error)
               /\ h[t].msg.type = "text"
               /\ Unraced(t) => History(h[t].user) = <<>>
               /\ h[t].replies = IF h[t].pc = "done" THEN <<h[t].msg>> ELSE <<>>

\* the chat completion of an audio event failed on the API key for a user
\* with an earlier turn; the history is gone
C12_Witness ==
    \E t \in Threads :
        /\ Failed(t)
        /\ Unraced(t)
        /\ h[t].pc = "done"
        /\ h[t].kind = "audio"
        /\ Len(h[t].calls) = 2
        /\ startswith(h[t].error, PREFIX_AUTH)
        /\ h[t].error # PREFIX_AUTH
        /\ h[t].replies = <<TextSendMessage(TEXT_AUTH)>>
        /\ h[t].pre[h[t].user].history # <<>>

\* C13: a failure whose error text starts with 'That model is currently
\* overloaded with other requests.' is answered with the text about the
\* load and not with the error text, for text commands and audio events
C13_OverloadedMessage ==
    \A t \in Threads :
        (Failed(t) /\ h[t].pc # "escaped"
                   /\ startswith(h[t].error, PREFIX_OVERLOADED))
            => /\ h[t].msg = TextSendMessage(TEXT_OVERLOADED)
               /\ h[t].msg # TextSendMessage(h[t].error)

\* what lines 160-165 do instead: the audio handler answered an overloaded
\* model with the error text as it came
C13_Witness ==
    \E t \in Threads :
        /\ Failed(t)
        /\ h[t].pc = "done"
        /\ h[t].kind = "audio"
        /\ startswith(h[t].error, PREFIX_OVERLOADED)
        /\ h[t].replies = <<TextSendMessage(h[t].error)>>
        /\ h[t].error # TEXT_OVERLOADED

\* C14: no exception leaves a handler: a handler in which a step failed
\* ends with exactly one reply, a text
C14_NoExceptionEscapes ==
    \A t \in Threads :
        /\ h[t].pc # "escaped"
        /\ (h[t].failed /\ h[t].pc = "done")
             => /\ Len(h[t].replies) = 1
                /\ h[t].replies[1].type = "text"

\* what lines 143-147 and 137 do instead: the download of an audio event
\* raised and the exception left the handler before its try, nothing
\* called and nothing replied; the image generation of a command failed,
\* the except block emptied the history and built the error text,
\* reply_message raised and the exception left the handler with no reply
C14_Witness ==
    \E t1 \in Threads, t2 \in Threads :
        /\ h[t1].pc = "escaped"
        /\ h[t1].kind = "audio"
        /\ h[t1].calls = <<>>
        /\ h[t1].msg = NoMessage
        /\ h[t1].replies = <<>>
        /\ h[t2].pc = "escaped"
        /\ h[t2].kind = "text"
        /\ h[t2].failed
        /\ Caps(t2) = <<"image_generations">>
        /\ h[t2].msg.type = "text"
        /\ h[t2].replies = <<>>

\* C15: the record the storage holds for a user is the user's record in
\* the memory, whatever the handlers did to it
C15_WriteThrough ==
    \A u \in Users : storage[u] = memory[u]

\* what lines 39 and 175-180 do instead: a handler set the system message
\* 'T' and appended a turn, the storage holds nothing for the user
C15_Witness ==
    \E t \in Threads :
        /\ h[t].pc = "done"
        /\ memory[h[t].user].system_message = <<84>>
        /\ Len(History(h[t].user)) = 2
        /\ storage[h[t].user] = FreshRecord
        /\ storage[h[t].user] # memory[h[t].user]

\* the audio handler is at the download of lines 143-147, or was left by
\* the exception of it
Downloading(t) ==
    \/ h[t].pc = "get_message_content"
    \/ h[t].pc = "escaped" /\ h[t].msg = NoMessage

\* C16: an audio event calls the transcription and then at most the chat
\* completion, never an extraction or the summarizer, whatever the
\* transcribed text is; with the events of the user handled one at a time,
\* the transcribed text is appended as a user entry before the chat
\* completion, which is given the system message and the history ending
\* with that entry; after success the produced entry follows it; when the
\* transcription fails nothing was appended and the history is empty
C16_AudioBypassesCommands ==
    \A t \in Threads :
        h[t].kind = "audio"
            => LET u == h[t].user
                   before == h[t].pre[u].history
                   said == Entry("user", h[t].prompt)
                   produced == Entry(h[t].response.role, h[t].response.content)
               IN
               /\ Caps(t) \in {<<>>, <<"audio_transcriptions">>,
                               <<"audio_transcriptions", "chat_completions">>}
               /\ Caps(t) = <<>> <=> Downloading(t)
               /\ h[t].pc \in {"audio_transcriptions", "audio_memory_get"}
                    => Len(h[t].calls) = 1
               /\ h[t].pc = "audio_chat_completions" => Len(h[t].calls) = 2
               /\ (AtReply(t) /\ ~ h[t].failed)
                    => /\ Len(h[t].calls) = 2
                       /\ h[t].msg = TextSendMessage(produced.content)
               /\ Unraced(t)
                    => /\ (Downloading(t) \/ h[t].pc = "audio_transcriptions")
                            => History(u) = before
                       /\ h[t].pc \in {"audio_memory_get", "audio_chat_completions"}
                            => History(u) = Window(before \o <<said>>)
                       /\ Len(h[t].calls) = 2
                            => h[t].calls[2].arg
                                 = <<Entry("system", memory[u].system_message)>>
                                     \o Window(before \o <<said>>)
                       /\ (AtReply(t) /\ ~ h[t].failed)
                            => History(u) = Window(before \o <<said, produced>>)
                       /\ (h[t].failed /\ Len(h[t].calls) = 1)
                            => /\ History(u) = <<>>
                               /\ appended[u] = <<>>
                               /\ h[t].prompt = <<>>

\* the audio of a user with a full window was transcribed as
\* '/清除 http://a' and answered by the chat completion; the history ends
\* with that text and the answer
C16_Witness ==
    \E t \in Threads :
        /\ h[t].kind = "audio"
        /\ Unraced(t)
        /\ h[t].pc = "done"
        /\ ~ h[t].failed
        /\ startswith(h[t].prompt, cmd_clear)
        /\ get_url_from_text(h[t].prompt) # <<>>
        /\ Len(h[t].pre[h[t].user].history) = 2 * max_turns
        /\ Len(History(h[t].user)) = 2 * max_turns
        /\ History(h[t].user)[2 * max_turns - 1] = Entry("user", h[t].prompt)

\* a /圖像 command
ImageCommand(t) ==
    /\ h[t].kind = "text"
    /\ startswith(h[t].text, cmd_image)

\* C17: the one call of a /圖像 command is the image generation with the
\* prompt, and after success the one reply is an image message whose
\* content and preview URL are both the generated URL; with the events of
\* the user handled one at a time, while the call is pending the history is
\* the one the handler found plus the user entry of the prompt, after
\* success that plus the assistant entry of the URL
C17_ImageAppendsTurn ==
    \A t \in Threads :
        ImageCommand(t)
            => LET u == h[t].user
                   before == h[t].pre[u].history
                   prompt == Rest(h[t].text, cmd_image)
                   turn == Entry("user", prompt)
               IN
               /\ h[t].calls = <<Call("image_generations", prompt)>>
               /\ (h[t].pc = "image_generations" /\ Unraced(t))
                    => History(u) = Window(before \o <<turn>>)
               /\ (AtReply(t) /\ ~ h[t].failed)
                    => \E url \in ImageUrls :
                        /\ h[t].msg = ImageSendMessage(url, url)
                        /\ h[t].msg.type = "image"
                        /\ Unraced(t)
                             => History(u)
                                  = Window(before
                                           \o <<turn, Entry("assistant", url)>>)
               /\ (h[t].pc = "done" /\ ~ h[t].failed)
                    => h[t].replies = <<h[t].msg>>

\* '/圖像 hi' succeeded for a user whose window was full: the oldest turn
\* made room for the prompt and the URL
C17_Witness ==
    \E t \in Threads :
        /\ ImageCommand(t)
        /\ Unraced(t)
        /\ h[t].pc = "done"
        /\ ~ h[t].failed
        /\ Len(h[t].replies) = 1
        /\ h[t].replies[1].type = "image"
        /\ Len(h[t].pre[h[t].user].history) = 2 * max_turns
        /\ History(h[t].user)[2 * max_turns - 1] = Entry("user", <<104, 105>>)
        /\ History(h[t].user)[2 * max_turns].role = "assistant"

\* the positions of s where 'http://' or 'https://' ends
AfterScheme(s) ==
    {i \in 0..Len(s) :
        \/ i >= Len(URL_HTTP)
             /\ SubSeq(s, i - Len(URL_HTTP) + 1, i) = URL_HTTP
        \/ i >= Len(URL_HTTPS)
             /\ SubSeq(s, i - Len(URL_HTTPS) + 1, i) = URL_HTTPS}

\* the prompt holds a URL; it holds a URL of the video host
ContainsUrl(s) == AfterScheme(s) # {}
ContainsVideoUrl(s) ==
    \E i \in AfterScheme(s) :
        /\ i + Len(VIDEO_HOST) < Len(s)
        /\ SubSeq(s, i + 1, i + Len(VIDEO_HOST)) = VIDEO_HOST

\* C18: a /GPT command with a prompt calls, for a prompt with a URL of the
\* video host, the transcript extraction and then at most the summarizer;
\* for a prompt with another URL, the page extraction and then at most the
\* summarizer; for a prompt without a URL, the chat completion alone, over
\* a system message and at most 2 * max_turns entries of the history, the
\* last of them the prompt when the events of the user are handled one at
\* a time
C18_ThreeRoutes ==
    \A t \in Threads :
        ChatCommand(t)
            => LET prompt == Rest(h[t].text, cmd_chat) IN
               /\ ContainsVideoUrl(prompt)
                    => Caps(t) \in {<<"get_transcript_chunks">>,
                                    <<"get_transcript_chunks", "summarize">>}
               /\ (ContainsUrl(prompt) /\ ~ ContainsVideoUrl(prompt))
                    => Caps(t) \in {<<"get_content_from_url">>,
                                    <<"get_content_from_url", "summarize">>}
               /\ ~ ContainsUrl(prompt)
                    => /\ Caps(t) = IF h[t].pc = "memory_get"
                                    THEN <<>> ELSE <<"chat_completions">>
                       /\ \A i \in 1..Len(h[t].calls) :
                            LET arg == h[t].calls[i].arg IN
                            /\ Len(arg) <= 2 * max_turns + 1
                            /\ Unraced(t)
                                 => arg[Len(arg)] = Entry("user", prompt)
               /\ (AtReply(t) /\ ~ h[t].failed)
                    => Caps(t)[Len(h[t].calls)]
                         = IF ContainsUrl(prompt) THEN "summarize"
                                                  ELSE "chat_completions"

\* the transcript of 'http://youtu.be/v' was extracted and summarized, the
\* summary was replied
C18_Witness ==
    \E t \in Threads :
        /\ ChatCommand(t)
        /\ ContainsVideoUrl(h[t].prompt)
        /\ h[t].pc = "done"
        /\ ~ h[t].failed
        /\ Caps(t) = <<"get_transcript_chunks", "summarize">>
        /\ h[t].response \in SummaryResponses
        /\ h[t].replies = <<TextSendMessage(h[t].response.content)>>

\* C19: a step of a handler, from the arrival of the event to the return,
\* successful or failing, with handlers of other users running or not,
\* leaves the system message and the history of every user but its own as
\* they were
C19_PerUserIsolation ==
    [][\A t \in Threads :
          h'[t] # h[t]
              => LET actor == IF h[t].pc = "idle" THEN h'[t].user
                                                  ELSE h[t].user
                 IN \A u \in Users : u # actor => memory'[u] = memory[u]
      ]_vars

\* a command of one user failed and emptied that user's history while the
\* chat completion of another user was pending: the other user's history
\* still ends with the pending prompt
C19_Witness ==
    \E t1 \in Threads, t2 \in Threads :
        /\ h[t1].pc = "done"
        /\ h[t1].failed
        /\ h[t2].pc = "chat_completions"
        /\ h[t2].user # h[t1].user
        /\ h[t1].pre[h[t2].user].history = <<Entry("user", h[t2].prompt)>>
        /\ History(h[t2].user) = <<Entry("user", h[t2].prompt)>>
        /\ History(h[t1].user) = <<>>

\* two user entries in a row
ConsecutiveUsers(hist) ==
    \E i \in 1..Len(hist) - 1 :
        hist[i].role = "user" /\ hist[i + 1].role = "user"

\* an assistant entry with no user entry before it
OrphanAssistant(hist) ==
    \E i \in 1..Len(hist) :
        /\ hist[i].role = "assistant"
        /\ i = 1 \/ hist[i - 1].role = "assistant"

\* C20: the handlers take no lock: two handlers of one user do overlap,
\* and the history they leave behind, when it is not user entries each
\* followed by an assistant entry, holds two consecutive user entries or an
\* assistant entry without its user entry; it is left so only by handlers
\* of that user that overlapped, and never ends with a user entry; that
\* both corruptions are reached is the witness
C20_OverlapCorruptsHistory ==
    \A u \in Users :
        ~ InFlight(u)
            => /\ History(u) = <<>>
                    \/ History(u)[Len(History(u))].role = "assistant"
               /\ ~ Paired(History(u))
                    => /\ raced[u]
                       /\ ConsecutiveUsers(History(u))
                            \/ OrphanAssistant(History(u))

\* two /GPT commands of one user overlapped: the second was given a history
\* of two consecutive user entries, then failed and emptied the history;
\* the first then appended its answer, an assistant entry with no user
\* entry before it, and both handlers have ended
C20_Witness ==
    \E u \in Users, t1 \in Threads, t2 \in Threads :
        /\ t1 # t2
        /\ h[t1].user = u
        /\ h[t2].user = u
        /\ raced[u]
        /\ ChatCommand(t1) /\ h[t1].pc = "done" /\ ~ h[t1].failed
        /\ ChatCommand(t2) /\ h[t2].pc = "done" /\ h[t2].failed
        /\ h[t2].calls[1].cap = "chat_completions"
        /\ Len(h[t2].calls[1].arg) = 3
        /\ h[t2].calls[1].arg[2].role = "user"
        /\ h[t2].calls[1].arg[3].role = "user"
        /\ History(u) = <<Entry("assistant", h[t1].response.content)>>

====
